---------------------------- MODULE Spec2Model ----------------------------
(***************************************************************************)
(* Model of the AI governance proxy: the prompt scanner in its two         *)
(* implementations (guardrails/governance_guardrail.py, which the server   *)
(* uses, and guardrails/pii_scanner.py), the audit logger                  *)
(* (audit_logger.py) and the request handler (server.py).                  *)
(*                                                                         *)
(* Text is a sequence of atoms.  An atom is a fixed piece of text, named   *)
(* by the very string it stands for; a text renders as the concatenation   *)
(* of its atoms.  The detectors' regular expressions are evaluated on atom *)
(* sequences by the rules below, which agree with Python's re.findall on   *)
(* every text built from the words of Vocabulary separated by single       *)
(* spaces, and on every text scan_prompt makes of one.                     *)
(***************************************************************************)
EXTENDS Integers, Sequences, FiniteSets, TLC

(***************************************************************************)
(* Bounds.                                                                 *)
(***************************************************************************)
MaxWords == 2      \* words in a scanned text (ScanSpec)
NumTx == 2         \* concurrent transactions (Spec)

(***************************************************************************)
(* Atoms and their character classes.                                      *)
(***************************************************************************)
SP == " "
WORD == "hello"
SSN_TXT == "123-45-6789"
EMAIL_TXT == "alice@example.com"
KW == "API_KEY"
EQ == "="
DOT == "."
VAL == "abcdefghijklmnopqrstuvwx"
LB == "["
GENERIC_TAIL == "_GENERIC_REDACTED]"
REDACTED_TAIL == "_REDACTED]"

\* The words a text is built from (each a sequence of atoms).
Vocabulary ==
    { <<WORD>>, <<SSN_TXT>>, <<EMAIL_TXT>>, <<WORD, EMAIL_TXT>>,
      <<SSN_TXT, DOT, EMAIL_TXT>>, <<KW, EQ, VAL>>, <<KW>> }

\* \w at the atom's first / last character.
StartsWithWordChar(a) ==
    a \in {WORD, SSN_TXT, EMAIL_TXT, KW, VAL, GENERIC_TAIL, REDACTED_TAIL}
EndsWithWordChar(a) == a \in {WORD, SSN_TXT, EMAIL_TXT, KW, VAL}
\* every character of the atom is in [A-Za-z0-9._%+-]
LocalAtom(a) == a \in {WORD, SSN_TXT, KW, VAL, DOT}
\* every character of the atom is in [A-Z|a-z]
LetterAtom(a) == a \in {WORD, VAL}
\* every character of the atom is in [a-zA-Z0-9_\-]
ValueAtom(a) == a \in {WORD, SSN_TXT, KW, VAL}
\* the number of leading characters of the atom that are in [a-zA-Z0-9_\-]
ValuePrefixLen(a) ==
    CASE a = WORD -> 5
      [] a = SSN_TXT -> 11
      [] a = EMAIL_TXT -> 5
      [] a = KW -> 7
      [] a = VAL -> 24
      [] a = GENERIC_TAIL -> 17
      [] a = REDACTED_TAIL -> 9
      [] OTHER -> 0
\* {20,} of the API_KEY_GENERIC pattern
MinKeyLen == 20

(***************************************************************************)
(* Texts.                                                                  *)
(***************************************************************************)
RECURSIVE Join(_)
Join(ws) ==
    IF Len(ws) = 0 THEN << >>
    ELSE IF Len(ws) = 1 THEN ws[1]
    ELSE ws[1] \o <<SP>> \o Join(Tail(ws))

WordSeqs(n) == UNION { [1..k -> Vocabulary] : k \in 0..n }
Texts == { Join(ws) : ws \in WordSeqs(MaxWords) }

\* s[i..j], empty when j < i
Slice(s, i, j) == IF j < i THEN << >> ELSE SubSeq(s, i, j)

\* m occurs in s at position i
OccursAt(s, m, i) ==
    /\ i >= 1
    /\ i + Len(m) - 1 <= Len(s)
    /\ \A k \in 1..Len(m) : s[i + k - 1] = m[k]

\* m in s  (Python: m in s)
Contains(s, m) == \E i \in 1..(Len(s) + 1) : OccursAt(s, m, i)

\* s.replace(m, r): every non-overlapping occurrence, left to right
RECURSIVE ReplaceFrom(_, _, _, _)
ReplaceFrom(s, m, r, i) ==
    IF i > Len(s) THEN << >>
    ELSE IF OccursAt(s, m, i) THEN r \o ReplaceFrom(s, m, r, i + Len(m))
    ELSE <<s[i]>> \o ReplaceFrom(s, m, r, i + 1)

\* (a match is never empty: every pattern consumes at least one character)
Replace(s, m, r) == IF Len(m) = 0 THEN s ELSE ReplaceFrom(s, m, r, 1)

(***************************************************************************)
(* The detectors: GovernanceProxy.PATTERNS of each implementation, in the  *)
(* order of the dict.                                                      *)
(***************************************************************************)
Impls == {"governance_guardrail", "pii_scanner"}

PATTERNS(impl) ==
    IF impl = "governance_guardrail"
    THEN << "SSN", "EMAIL", "PHONE_US", "US_ZIP_CODE", "CREDIT_CARD", "VIN_NUMBER",
            "IP_ADDRESS", "AWS_ACCESS_KEY", "PRIVATE_KEY_BLOCK", "API_KEY_GENERIC",
            "ICD10_CODE", "DEA_NUMBER" >>
    ELSE << "SSN", "EMAIL", "CREDIT_CARD", "PHONE_US", "IP_ADDRESS", "US_ZIP_CODE",
            "STREET_ADDRESS", "API_KEY" >>

\* pii_type.lower(): the key of the detector's rule in data_rules
Lower(d) ==
    CASE d = "SSN" -> "ssn"
      [] d = "EMAIL" -> "email"
      [] d = "PHONE_US" -> "phone_us"
      [] d = "US_ZIP_CODE" -> "us_zip_code"
      [] d = "CREDIT_CARD" -> "credit_card"
      [] d = "VIN_NUMBER" -> "vin_number"
      [] d = "IP_ADDRESS" -> "ip_address"
      [] d = "AWS_ACCESS_KEY" -> "aws_access_key"
      [] d = "PRIVATE_KEY_BLOCK" -> "private_key_block"
      [] d = "API_KEY_GENERIC" -> "api_key_generic"
      [] d = "ICD10_CODE" -> "icd10_code"
      [] d = "DEA_NUMBER" -> "dea_number"
      [] d = "STREET_ADDRESS" -> "street_address"
      [] d = "API_KEY" -> "api_key"

\* f"[{pii_type}_REDACTED]"; the names API_KEY_GENERIC and API_KEY hold the
\* text API_KEY
Placeholder(d) ==
    CASE d = "SSN" -> << "[SSN_REDACTED]" >>
      [] d = "EMAIL" -> << "[EMAIL_REDACTED]" >>
      [] d = "PHONE_US" -> << "[PHONE_US_REDACTED]" >>
      [] d = "US_ZIP_CODE" -> << "[US_ZIP_CODE_REDACTED]" >>
      [] d = "CREDIT_CARD" -> << "[CREDIT_CARD_REDACTED]" >>
      [] d = "VIN_NUMBER" -> << "[VIN_NUMBER_REDACTED]" >>
      [] d = "IP_ADDRESS" -> << "[IP_ADDRESS_REDACTED]" >>
      [] d = "AWS_ACCESS_KEY" -> << "[AWS_ACCESS_KEY_REDACTED]" >>
      [] d = "PRIVATE_KEY_BLOCK" -> << "[PRIVATE_KEY_BLOCK_REDACTED]" >>
      [] d = "API_KEY_GENERIC" -> << LB, KW, GENERIC_TAIL >>
      [] d = "ICD10_CODE" -> << "[ICD10_CODE_REDACTED]" >>
      [] d = "DEA_NUMBER" -> << "[DEA_NUMBER_REDACTED]" >>
      [] d = "STREET_ADDRESS" -> << "[STREET_ADDRESS_REDACTED]" >>
      [] d = "API_KEY" -> << LB, KW, REDACTED_TAIL >>

\* \b before s[i] / after s[i]
BoundaryBefore(s, i) ==
    StartsWithWordChar(s[i]) # (i > 1 /\ EndsWithWordChar(s[i - 1]))
BoundaryAfter(s, i) ==
    EndsWithWordChar(s[i]) # (i < Len(s) /\ StartsWithWordChar(s[i + 1]))

IsSpace(a) == a = SP

\* atom a is made of characters of the class only
InClass(class, a) ==
    CASE class = "[A-Za-z0-9._%+-]" -> LocalAtom(a)
      [] class = "[A-Z|a-z]" -> LetterAtom(a)
      [] class = "[a-zA-Z0-9_\\-]" -> ValueAtom(a)
      [] class = "\\s" -> IsSpace(a)

\* the first index >= i whose atom is not of the class, Len(s) + 1 when there
\* is none: where a greedy run of the class that starts at s[i] ends
RECURSIVE RunEnd(_, _, _)
RunEnd(class, s, i) ==
    IF i > Len(s) THEN i
    ELSE IF InClass(class, s[i]) THEN RunEnd(class, s, i + 1)
    ELSE i

\* the number of characters of [a-zA-Z0-9_\-] that s holds from s[i] on
RECURSIVE ValueLen(_, _)
ValueLen(s, i) ==
    IF i > Len(s) THEN 0
    ELSE IF ValueAtom(s[i]) THEN ValuePrefixLen(s[i]) + ValueLen(s, i + 1)
    ELSE ValuePrefixLen(s[i])

\* A match of detector d that starts at s[i]: <<last atom of the match,
\* first atom of what findall returns, last atom of what findall returns>>,
\* or << >>.  findall returns group 1 where the pattern has a group.
NoMatch == << >>

\* r'\b\d{3}-\d{2}-\d{4}\b'
MatchSSN(s, i) ==
    IF s[i] = SSN_TXT /\ BoundaryBefore(s, i) /\ BoundaryAfter(s, i)
    THEN <<i, i, i>>
    ELSE NoMatch

\* r'\b[A-Za-z0-9._%+-]+@[A-Za-z0-9.-]+\.[A-Z|a-z]{2,}\b'
MatchEMAIL(s, i) ==
    LET j == RunEnd("[A-Za-z0-9._%+-]", s, i)
    IN  IF j <= Len(s) /\ s[j] = EMAIL_TXT /\ BoundaryBefore(s, i)
        THEN LET e == RunEnd("[A-Z|a-z]", s, j + 1) - 1
             IN  IF BoundaryAfter(s, e) THEN <<e, i, e>> ELSE NoMatch
        ELSE NoMatch

\* r'(?i)(api_key|access_token|secret)\s*[:=]\s*[a-zA-Z0-9_\-]{20,}'
MatchAPI_KEY_GENERIC(s, i) ==
    IF s[i] # KW THEN NoMatch
    ELSE LET j == RunEnd("\\s", s, i + 1)
         IN  IF j > Len(s) \/ s[j] # EQ THEN NoMatch
             ELSE LET k == RunEnd("\\s", s, j + 1)
                      e == RunEnd("[a-zA-Z0-9_\\-]", s, k)
                  IN  IF ValueLen(s, k) >= MinKeyLen
                      THEN <<IF e > Len(s) \/ ValuePrefixLen(s[e]) = 0
                             THEN e - 1 ELSE e, i, i>>
                      ELSE NoMatch

\* API_KEY of pii_scanner.py is the pattern of API_KEY_GENERIC.  The other
\* patterns match no text made of the atoms above.
MatchAt(d, s, i) ==
    CASE d = "SSN" -> MatchSSN(s, i)
      [] d = "EMAIL" -> MatchEMAIL(s, i)
      [] d = "API_KEY_GENERIC" -> MatchAPI_KEY_GENERIC(s, i)
      [] d = "API_KEY" -> MatchAPI_KEY_GENERIC(s, i)
      [] OTHER -> NoMatch

\* re.findall(pattern, s, re.IGNORECASE): leftmost matches, not overlapping
RECURSIVE FindAllFrom(_, _, _)
FindAllFrom(d, s, i) ==
    IF i > Len(s) THEN << >>
    ELSE LET m == MatchAt(d, s, i)
         IN  IF m = NoMatch THEN FindAllFrom(d, s, i + 1)
             ELSE <<Slice(s, m[2], m[3])>> \o FindAllFrom(d, s, m[1] + 1)

FindAll(d, s) == FindAllFrom(d, s, 1)

(***************************************************************************)
(* Policies.  A policy is the mapping yaml.safe_load returns:              *)
(* global_settings.enforcement_mode and data_rules, a function from rule   *)
(* keys to rules.  A key a rule lacks reads as Missing (KeyError).         *)
(***************************************************************************)
Missing == "<missing>"
None == << "<None>" >>

Rule(action, sensitivity) == [action |-> action, sensitivity |-> sensitivity]

\* the in-memory policy _load_policy returns when the file is not found
DefaultPolicy ==
    [ global_settings |-> [enforcement_mode |-> "blocking"],
      data_rules |->
        [ k \in {"ssn", "aws_access_key", "icd10_code", "default"} |->
            CASE k = "ssn" -> Rule("BLOCK", "CRITICAL")
              [] k = "aws_access_key" -> Rule("BLOCK", "CRITICAL")
              [] k = "icd10_code" -> Rule("REDACT", "HIGH")
              [] k = "default" -> Rule("REDACT", "UNKNOWN") ] ]

\* the rule a policy file gives a detector: none, one of the three actions,
\* or a rule that lacks its action
RuleChoices == {"absent", "BLOCK", "REDACT", "ALLOW", "malformed"}

RuleOfChoice(c) ==
    CASE c = "BLOCK" -> Rule("BLOCK", "CRITICAL")
      [] c = "REDACT" -> Rule("REDACT", "MEDIUM")
      [] c = "ALLOW" -> Rule("ALLOW", "LOW")
      [] c = "malformed" -> Rule(Missing, "HIGH")

\* the keys of the detectors that match some text of the model
ActiveKeys(impl) ==
    IF impl = "governance_guardrail" THEN {"ssn", "email", "api_key_generic"}
    ELSE {"ssn", "email", "api_key"}

\* a policy file: a mode, and for each key of the choice its rule
FilePolicy(mode, choice) ==
    [ global_settings |-> [enforcement_mode |-> mode],
      data_rules |->
        [ k \in {x \in DOMAIN choice : choice[x] # "absent"} |->
            RuleOfChoice(choice[k]) ] ]

\* the policies an implementation can have loaded
Policies(impl) ==
    {DefaultPolicy} \cup
    { FilePolicy(mode, choice) :
        mode \in {"blocking", "monitor"},
        choice \in [ActiveKeys(impl) -> RuleChoices] }

(***************************************************************************)
(* GovernanceProxy.                                                        *)
(***************************************************************************)
\* the dict {}
EmptyDict == << >>

\* d.get(key, default)
Get(d, key, default) == IF key \in DOMAIN d THEN d[key] ELSE default

\* GovernanceProxy.__init__, of either implementation, with the policy
\* _load_policy returned
GovernanceProxy(impl, policy) ==
    [ impl |-> impl,
      policy |-> policy,
      enforcement_mode |->
          Get(Get(policy, "global_settings", EmptyDict), "enforcement_mode",
              "blocking") ]

\* self.policy.get('data_rules', {}).get(pii_type.lower(), {...})
RuleFor(self, d) ==
    Get(Get(self.policy, "data_rules", EmptyDict), Lower(d),
        IF self.impl = "governance_guardrail" THEN Rule("REDACT", "HIGH")
        ELSE Rule("REDACT", "UNKNOWN"))

\* What can be at the policy path: no file, a file that cannot be opened
\* for reading, a file that is not YAML, an empty file, a policy file.
SourceKinds == {"missing", "unreadable", "unparsable", "empty", "file"}

\* the policy files a scanner is constructed from
PolicyFiles(impl) ==
    { DefaultPolicy,
      FilePolicy("monitor", [k \in ActiveKeys(impl) |->
          IF k = "ssn" THEN "REDACT" ELSE "absent"]),
      FilePolicy("blocking", [k \in ActiveKeys(impl) |->
          IF k = "email" THEN "BLOCK" ELSE "ALLOW"]) }

\* _load_policy: what open and yaml.safe_load do with the source, and the
\* one exception that is caught.  It raises, returns None (is_none), or
\* returns a dict.
_load_policy(impl, kind, content) ==
    CASE kind = "missing" ->
             [ raised |-> "", is_none |-> FALSE,
               policy |-> IF impl = "governance_guardrail" THEN DefaultPolicy
                          ELSE EmptyDict ]
      [] kind = "unreadable" ->
             [ raised |-> "PermissionError", is_none |-> FALSE, policy |-> EmptyDict ]
      [] kind = "unparsable" ->
             [ raised |-> "YAMLError", is_none |-> FALSE, policy |-> EmptyDict ]
      [] kind = "empty" ->
             [ raised |-> "", is_none |-> TRUE, policy |-> EmptyDict ]
      [] kind = "file" ->
             [ raised |-> "", is_none |-> FALSE, policy |-> content ]

\* a constructor call that raised: there is no scanner
NoProxy(impl, exc) == [ impl |-> impl, raised |-> exc ]
Constructed(self) == "policy" \in DOMAIN self

\* GovernanceProxy(policy_path): __init__ with its call of _load_policy;
\* self.policy.get on the None of an empty file raises AttributeError
Construct(impl, kind, content) ==
    LET loaded == _load_policy(impl, kind, content)
    IN  IF loaded.raised # "" THEN NoProxy(impl, loaded.raised)
        ELSE IF loaded.is_none THEN NoProxy(impl, "AttributeError")
        ELSE GovernanceProxy(impl, loaded.policy)

\* the local variables of scan_prompt; raised: a KeyError left the loop
ScanStart(prompt_text) ==
    [ violations |-> << >>, modified_prompt |-> prompt_text,
      blocked |-> FALSE, raised |-> FALSE ]

\* ApplyMatch with a REDACT match clearing the blocked flag
ApplyMatch_RedactClearsBlock(st, d, rule, m) ==
    IF st.raised THEN st
    ELSE IF rule.sensitivity = Missing \/ rule.action = Missing
    THEN [st EXCEPT !.raised = TRUE]
    ELSE LET v == [ type |-> d, sensitivity |-> rule.sensitivity,
                    action |-> rule.action, content |-> m ]
             st1 == [st EXCEPT !.violations = Append(@, v)]
         IN  IF rule.action = "BLOCK" THEN [st1 EXCEPT !.blocked = TRUE]
             ELSE IF rule.action = "REDACT"
             THEN [st1 EXCEPT !.modified_prompt = Replace(@, m, Placeholder(d)),
                              !.blocked = FALSE]
             ELSE st1

\* the body of "for m in unique_matches"
ApplyMatch(st, d, rule, m) ==
    IF st.raised THEN st
    ELSE IF rule.sensitivity = Missing \/ rule.action = Missing
    THEN [st EXCEPT !.raised = TRUE]
    ELSE LET v == [ type |-> d, sensitivity |-> rule.sensitivity,
                    action |-> rule.action, content |-> m ]
             st1 == [st EXCEPT !.violations = Append(@, v)]
         IN  IF rule.action = "BLOCK" THEN [st1 EXCEPT !.blocked = TRUE]
             ELSE IF rule.action = "REDACT"
             THEN [st1 EXCEPT !.modified_prompt = Replace(@, m, Placeholder(d))]
             ELSE st1

RECURSIVE ApplyMatches(_, _, _, _)
ApplyMatches(st, d, rule, ms) ==
    IF Len(ms) = 0 THEN st
    ELSE ApplyMatches(ApplyMatch(st, d, rule, Head(ms)), d, rule, Tail(ms))

Range(f) == { f[x] : x \in DOMAIN f }

\* list(set(matches)): the distinct matches, in any order
ListsOfSet(S) ==
    { f \in [1..Cardinality(S) -> S] : Range(f) = S }

\* the states the loop over PATTERNS can end in, from detector k on
RECURSIVE ScanLoop(_, _, _, _)
ScanLoop(self, prompt_text, k, st) ==
    IF k > Len(PATTERNS(self.impl)) THEN {st}
    ELSE LET d == PATTERNS(self.impl)[k]
             rule == RuleFor(self, d)
             matches == FindAll(d, prompt_text)
         IN  UNION { ScanLoop(self, prompt_text, k + 1,
                              ApplyMatches(st, d, rule, unique_matches)) :
                     unique_matches \in ListsOfSet(Range(matches)) }

\* what scan_prompt returns from the loop's final state
ScanReturn(st) ==
    IF st.raised
    THEN [ raised |-> TRUE, sanitized |-> None, status |-> "KeyError",
           violations |-> << >> ]
    ELSE IF st.blocked
    THEN [ raised |-> FALSE, sanitized |-> None, status |-> "BLOCKED",
           violations |-> st.violations ]
    ELSE [ raised |-> FALSE, sanitized |-> st.modified_prompt, status |-> "SAFE",
           violations |-> st.violations ]

\* GovernanceProxy.scan_prompt: every result it can return for the text
\* (one per order list(set(matches)) can take)
scan_prompt(self, prompt_text) ==
    { ScanReturn(st) : st \in ScanLoop(self, prompt_text, 1, ScanStart(prompt_text)) }

(***************************************************************************)
(* OutputGuard.scan_completion (guardrails/output_scanner.py), the Scan    *)
(* Engine of the specification applied to the completion: a BLOCK match    *)
(* blocks (in blocking mode) and the text comes back unmodified; otherwise *)
(* REDACT matches are replaced and the status is REDACTED if a replacement *)
(* occurred, SAFE if none did.  A detector whose rule is unusable is       *)
(* skipped.                                                                *)
(***************************************************************************)
OutputRuleFor(policy, d) ==
    IF Lower(d) \in DOMAIN policy.data_rules
    THEN policy.data_rules[Lower(d)]
    ELSE Rule("REDACT", "UNKNOWN")

OutputApply(st, d, rule, m) ==
    IF rule.sensitivity = Missing \/ rule.action = Missing THEN st
    ELSE IF rule.action = "BLOCK" THEN [st EXCEPT !.blocked = TRUE]
    ELSE IF rule.action = "REDACT"
    THEN [st EXCEPT !.modified_prompt = Replace(@, m, Placeholder(d))]
    ELSE st

RECURSIVE OutputApplyAll(_, _, _, _)
OutputApplyAll(st, d, rule, ms) ==
    IF Len(ms) = 0 THEN st
    ELSE OutputApplyAll(OutputApply(st, d, rule, Head(ms)), d, rule, Tail(ms))

RECURSIVE OutputLoop(_, _, _, _)
OutputLoop(policy, text, k, st) ==
    IF k > Len(PATTERNS("governance_guardrail")) THEN {st}
    ELSE LET d == PATTERNS("governance_guardrail")[k]
         IN  UNION { OutputLoop(policy, text, k + 1,
                                OutputApplyAll(st, d, OutputRuleFor(policy, d), ms)) :
                     ms \in ListsOfSet(Range(FindAll(d, text))) }

scan_completion(policy, text) ==
    { IF st.blocked /\ policy.global_settings.enforcement_mode = "blocking"
      THEN [ text |-> text, status |-> "BLOCKED" ]
      ELSE [ text |-> st.modified_prompt,
             status |-> IF st.modified_prompt # text THEN "REDACTED" ELSE "SAFE" ] :
      st \in OutputLoop(policy, text, 1, ScanStart(text)) }

(***************************************************************************)
(* The request handler (server.py) and the audit logger.                   *)
(***************************************************************************)
VARIABLES
    input_guard,    \* the GovernanceProxy of the process
    policy_source,  \* what was at the policy path when it was constructed
    auditLog,       \* the lines of audit_logs/governance.jsonl, in file order
    tx,             \* per transaction: where its handler is and what it holds
    upstream,       \* per transaction: the requests it posted to UPSTREAM_LLM_URL
    background,     \* per transaction: the tasks added to its BackgroundTasks
    JIRA_WEBHOOK_URL, \* os.getenv("JIRA_WEBHOOK", ""), read once at import
    scan_text,      \* ScanSpec: the text last scanned
    scan_result     \* ScanSpec: what scan_prompt returned for it

vars == <<input_guard, policy_source, auditLog, tx, upstream, background, JIRA_WEBHOOK_URL,
          scan_text, scan_result>>

Txns == 1..NumTx

\* the prompts and completions the handler is driven with
Prompts == { <<WORD>>, <<SSN_TXT>>, <<EMAIL_TXT>> }
Completions == { <<WORD>>, <<SSN_TXT>>, <<EMAIL_TXT>> }

\* ChatRequest.messages, as the list of the messages' contents
MessageLists ==
    { << >> } \cup { <<p>> : p \in Prompts } \cup { <<<<SSN_TXT>>, <<WORD>>>> }

\* how the awaited client.post(...) and the lines after it can go
Replies ==
    { [kind |-> k, content |-> << >>] :
        k \in {"ConnectError", "ReadTimeout", "HTTPStatusError",
               "NotJSON", "NoChoices"} }
    \cup { [kind |-> "OK", content |-> c] : c \in Completions }

\* the policies the process can have loaded
ServerPolicies ==
    { DefaultPolicy,
      FilePolicy("monitor", [k \in ActiveKeys("governance_guardrail") |->
          IF k = "ssn" THEN "BLOCK" ELSE "absent"]),
      FilePolicy("blocking", [k \in ActiveKeys("governance_guardrail") |->
          IF k = "email" THEN "malformed" ELSE "BLOCK"]) }

NoResponse == [status_code |-> 0, detail |-> "", content |-> None]
HTTPException(code, detail) ==
    [status_code |-> code, detail |-> detail, content |-> None]
\* an exception no handler catches: the framework answers 500
Unhandled(exc) == [status_code |-> 500, detail |-> exc, content |-> None]
Returned(content) == [status_code |-> 200, detail |-> "", content |-> content]

\* log_event with the new line put first in the file
log_event_Prepends(log, event_type, prompt_id, status, details) ==
    << [ event_type |-> event_type, transaction_id |-> prompt_id,
         status |-> status, policy_version |-> "2.1",
         details |-> details ] >> \o log

\* log_event with the log file opened for writing, not for appending
log_event_Truncates(log, event_type, prompt_id, status, details) ==
    << [ event_type |-> event_type, transaction_id |-> prompt_id,
         status |-> status, policy_version |-> "2.1",
         details |-> details ] >>

\* AuditLogger.log_event: one line appended to the log file
log_event(log, event_type, prompt_id, status, details) ==
    Append(log, [ event_type |-> event_type, transaction_id |-> prompt_id,
                  status |-> status, policy_version |-> "2.1",
                  details |-> details ])

\* add_task with the task added twice
add_task_Twice(tasks, transaction_id, violations) ==
    tasks \o
    << [ task |-> "notify_jira", transaction_id |-> transaction_id,
         violations |-> violations, state |-> "scheduled" ],
       [ task |-> "notify_jira", transaction_id |-> transaction_id,
         violations |-> violations, state |-> "scheduled" ] >>

\* background_tasks.add_task(notify_jira, transaction_id, user_id, violations):
\* the call is recorded, not awaited
add_task(tasks, transaction_id, violations) ==
    Append(tasks, [ task |-> "notify_jira", transaction_id |-> transaction_id,
                    violations |-> violations, state |-> "scheduled" ])

\* a handler that has not started: no local is bound yet
Fresh ==
    [ pc |-> "INGRESS", messages |-> << >>, user_prompt |-> None,
      sanitized_prompt |-> None, status |-> "", reply |-> "",
      raw_llm_response |-> None, out_status |-> "", response |-> NoResponse ]

\* request.messages[-1].content = sanitized_prompt
SetLast(messages, content) == [messages EXCEPT ![Len(messages)] = content]

\* an exception leaves the handler uncaught (server.py has no handler for it)
RaiseUnhandled(t, exc) ==
    /\ tx' = [tx EXCEPT ![t].pc = "UNHANDLED", ![t].response = Unhandled(exc)]
    /\ UNCHANGED <<auditLog, upstream, background>>

\* InputBlocked without its raise: the handler logs, then goes on to forward
InputBlocked_NoRaise(t, messages, user_prompt, r) ==
    /\ auditLog' = log_event(auditLog, "INPUT_SCAN", t, "BLOCKED",
                             "Critical Data Detected")
    /\ background' = [background EXCEPT
                        ![t] = add_task(@, t, "Critical PII/Secrets in Prompt")]
    /\ tx' = [tx EXCEPT ![t].pc = "CLIENT_OPEN",
                        ![t].messages = messages,
                        ![t].user_prompt = user_prompt,
                        ![t].sanitized_prompt = r.sanitized,
                        ![t].status = r.status]
    /\ UNCHANGED upstream

\* lines 61-73: the input scan returned BLOCKED
InputBlocked(t, messages, user_prompt, r) ==
    /\ auditLog' = log_event(auditLog, "INPUT_SCAN", t, "BLOCKED",
                             "Critical Data Detected")
    /\ background' = [background EXCEPT
                        ![t] = add_task(@, t, "Critical PII/Secrets in Prompt")]
    /\ tx' = [tx EXCEPT ![t].pc = "INPUT_BLOCKED",
                        ![t].messages = messages,
                        ![t].user_prompt = user_prompt,
                        ![t].sanitized_prompt = r.sanitized,
                        ![t].status = r.status,
                        ![t].response = HTTPException(403,
                            "Prompt blocked by AI Acceptable Use Policy.")]
    /\ UNCHANGED upstream

\* InputPassed without line 77: the request keeps the original prompt
InputPassed_KeepsOriginal(t, messages, user_prompt, r) ==
    LET redacted == r.sanitized # user_prompt
    IN  /\ auditLog' = IF redacted
                       THEN log_event(auditLog, "INPUT_SCAN", t, "REDACTED",
                                      "PII Masked")
                       ELSE auditLog
        /\ tx' = [tx EXCEPT ![t].pc = "CLIENT_OPEN",
                            ![t].messages = messages,
                            ![t].user_prompt = user_prompt,
                            ![t].sanitized_prompt = r.sanitized,
                            ![t].status = r.status]
        /\ UNCHANGED <<upstream, background>>

\* lines 75-85: the input scan did not block
InputPassed(t, messages, user_prompt, r) ==
    LET redacted == r.sanitized # user_prompt
    IN  /\ auditLog' = IF redacted
                       THEN log_event(auditLog, "INPUT_SCAN", t, "REDACTED",
                                      "PII Masked")
                       ELSE auditLog
        /\ tx' = [tx EXCEPT ![t].pc = "CLIENT_OPEN",
                            ![t].messages = IF redacted
                                            THEN SetLast(messages, r.sanitized)
                                            ELSE messages,
                            ![t].user_prompt = user_prompt,
                            ![t].sanitized_prompt = r.sanitized,
                            ![t].status = r.status]
        /\ UNCHANGED <<upstream, background>>

\* proxy_chat_completion, lines 55-85: up to the opening of the client
ReceiveRequest(t) ==
    /\ tx[t].pc = "INGRESS"
    /\ \E messages \in MessageLists :
         IF Len(messages) = 0
         THEN RaiseUnhandled(t, "IndexError")
         ELSE LET user_prompt == messages[Len(messages)]
              IN  \E r \in scan_prompt(input_guard, user_prompt) :
                    IF r.raised THEN RaiseUnhandled(t, "KeyError")
                    ELSE IF r.status = "BLOCKED"
                    THEN InputBlocked(t, messages, user_prompt, r)
                    ELSE InputPassed(t, messages, user_prompt, r)
    /\ UNCHANGED <<input_guard, policy_source, JIRA_WEBHOOK_URL, scan_text, scan_result>>

\* lines 87-93: client.post(UPSTREAM_LLM_URL, json=request.dict(), ...) is sent
PostUpstream(t) ==
    /\ tx[t].pc = "CLIENT_OPEN"
    /\ upstream' = [upstream EXCEPT ![t] = Append(@, [messages |-> tx[t].messages])]
    /\ tx' = [tx EXCEPT ![t].pc = "UPSTREAM_CALLING"]
    /\ UNCHANGED <<input_guard, policy_source, auditLog, background, JIRA_WEBHOOK_URL,
                   scan_text, scan_result>>

\* UpstreamFailed with one retry of the post
UpstreamFailed_Retries(t, reply) ==
    /\ IF Len(upstream[t]) < 2
       THEN /\ upstream' = [upstream EXCEPT
                              ![t] = Append(@, [messages |-> tx[t].messages])]
            /\ tx' = [tx EXCEPT ![t].reply = reply.kind]
       ELSE /\ upstream' = upstream
            /\ tx' = [tx EXCEPT ![t].pc = "UPSTREAM_ERROR",
                                ![t].reply = reply.kind,
                                ![t].response =
                                    HTTPException(502, "Upstream Provider Error")]
    /\ UNCHANGED <<auditLog, background>>

\* UpstreamFailed where the handler goes on waiting for the upstream
UpstreamFailed_KeepsWaiting(t, reply) ==
    /\ tx' = [tx EXCEPT ![t].reply = reply.kind]
    /\ UNCHANGED <<auditLog, upstream, background>>

\* lines 96-97: except httpx.HTTPError
UpstreamFailed(t, reply) ==
    /\ tx' = [tx EXCEPT ![t].pc = "UPSTREAM_ERROR",
                        ![t].reply = reply.kind,
                        ![t].response = HTTPException(502, "Upstream Provider Error")]
    /\ UNCHANGED <<auditLog, upstream, background>>

\* OutputBlocked without its raise: the raw completion is returned
OutputBlocked_ReturnsRaw(t, reply, o) ==
    /\ auditLog' = log_event(auditLog, "OUTPUT_SCAN", t, "BLOCKED",
                             "Data Leakage Detected")
    /\ background' = [background EXCEPT
                        ![t] = add_task(@, t, "Potential Data Exfiltration in Output")]
    /\ tx' = [tx EXCEPT ![t].pc = "DELIVERED",
                        ![t].reply = reply.kind,
                        ![t].raw_llm_response = reply.content,
                        ![t].out_status = o.status,
                        ![t].response = Returned(reply.content)]
    /\ UNCHANGED upstream

\* lines 104-109: the output scan returned BLOCKED
OutputBlocked(t, reply, o) ==
    /\ auditLog' = log_event(auditLog, "OUTPUT_SCAN", t, "BLOCKED",
                             "Data Leakage Detected")
    /\ background' = [background EXCEPT
                        ![t] = add_task(@, t, "Potential Data Exfiltration in Output")]
    /\ tx' = [tx EXCEPT ![t].pc = "OUTPUT_BLOCKED",
                        ![t].reply = reply.kind,
                        ![t].raw_llm_response = reply.content,
                        ![t].out_status = o.status,
                        ![t].response = HTTPException(502,
                            "Response suppressed due to Data Leakage Policy.")]
    /\ UNCHANGED upstream

\* lines 111-116: the completion is returned, with the scanned content
Deliver(t, reply, o) ==
    /\ auditLog' = log_event(auditLog, "TRANSACTION_COMPLETE", t, "SUCCESS",
                             "Request fulfilled")
    /\ tx' = [tx EXCEPT ![t].pc = "DELIVERED",
                        ![t].reply = reply.kind,
                        ![t].raw_llm_response = reply.content,
                        ![t].out_status = o.status,
                        ![t].response = Returned(o.text)]
    /\ UNCHANGED <<upstream, background>>

\* the exceptions httpx.HTTPError covers: transport, timeout, raise_for_status
HTTPErrors == {"ConnectError", "ReadTimeout", "HTTPStatusError"}

\* proxy_chat_completion, lines 89-116: from the return of client.post on
UpstreamReply(t) ==
    /\ tx[t].pc = "UPSTREAM_CALLING"
    /\ \E reply \in Replies :
         IF reply.kind \in HTTPErrors THEN UpstreamFailed(t, reply)
         ELSE IF reply.kind = "NotJSON" THEN RaiseUnhandled(t, "JSONDecodeError")
         ELSE IF reply.kind = "NoChoices" THEN RaiseUnhandled(t, "KeyError")
         ELSE \E o \in scan_completion(input_guard.policy, reply.content) :
                IF o.status = "BLOCKED" THEN OutputBlocked(t, reply, o)
                ELSE Deliver(t, reply, o)
    /\ UNCHANGED <<input_guard, policy_source, JIRA_WEBHOOK_URL, scan_text, scan_result>>

NotScanned == [ raised |-> FALSE, sanitized |-> None, status |-> "NotScanned",
                violations |-> << >> ]

Init ==
    /\ input_guard \in { GovernanceProxy("governance_guardrail", p) :
                          p \in ServerPolicies }
    /\ policy_source = IF input_guard.policy = DefaultPolicy THEN "missing"
                       ELSE "file"
    /\ auditLog = << >>
    /\ tx = [t \in Txns |-> Fresh]
    /\ upstream = [t \in Txns |-> << >>]
    /\ background = [t \in Txns |-> << >>]
    /\ JIRA_WEBHOOK_URL = ""
    /\ scan_text = << >>
    /\ scan_result = NotScanned

Next == \E t \in Txns : ReceiveRequest(t) \/ PostUpstream(t) \/ UpstreamReply(t)

Spec == Init /\ [][Next]_vars

\* The handler under its scheduling: the event loop goes on running a
\* handler while one can take a step, and the post, made with timeout=60.0
\* (line 87), comes back with a reply or with a timeout error.
\* Followed under the fallback policy: no step of the handler waits on the
\* policy.
FairInit ==
    /\ Init
    /\ input_guard = GovernanceProxy("governance_guardrail", DefaultPolicy)

FairSpec == FairInit /\ [][Next]_vars /\ WF_vars(Next)

(***************************************************************************)
(* The handler together with the background tasks it added: notify_jira    *)
(* (server.py 36-51), run by the framework at some time after add_task, or *)
(* never.                                                                  *)
(***************************************************************************)
\* the values of the JIRA_WEBHOOK environment variable: unset, or a sink
WebhookURLs == {"", "https://jira.example/hook"}

\* lines 38-49: without a sink the task returns; with one it builds the
\* payload and awaits client.post
StartNotify(t) ==
    /\ \E i \in 1..Len(background[t]) :
          /\ background[t][i].state = "scheduled"
          /\ background' = [background EXCEPT ![t][i].state =
                               IF JIRA_WEBHOOK_URL = "" THEN "returned"
                               ELSE "posting"]
    /\ UNCHANGED <<input_guard, policy_source, auditLog, tx, upstream, JIRA_WEBHOOK_URL,
                   scan_text, scan_result>>

\* FinishNotify where the sink's exception leaves the task and fails the
\* transaction
FinishNotify_Propagates(t) ==
    /\ \E i \in 1..Len(background[t]) :
          /\ background[t][i].state = "posting"
          /\ \E ok \in BOOLEAN :
                /\ background' = [background EXCEPT ![t][i].state =
                                     IF ok THEN "posted" ELSE "raised"]
                /\ tx' = IF ok THEN tx
                         ELSE [tx EXCEPT ![t].response = Unhandled("Exception")]
    /\ UNCHANGED <<input_guard, policy_source, auditLog, upstream, JIRA_WEBHOOK_URL,
                   scan_text, scan_result>>

\* lines 48-51: the awaited post returns, or raises and the exception is
\* caught and printed; a post that never completes takes no step
FinishNotify(t) ==
    /\ \E i \in 1..Len(background[t]) :
          /\ background[t][i].state = "posting"
          /\ \E ok \in BOOLEAN :
                background' = [background EXCEPT ![t][i].state =
                                  IF ok THEN "posted" ELSE "printed"]
    /\ UNCHANGED <<input_guard, policy_source, auditLog, tx, upstream, JIRA_WEBHOOK_URL,
                   scan_text, scan_result>>

\* The tasks are followed under the fallback policy, which blocks an SSN in
\* the prompt and in the completion: notify_jira reads no policy.
NotifyInit ==
    /\ input_guard = GovernanceProxy("governance_guardrail", DefaultPolicy)
    /\ policy_source = "missing"
    /\ auditLog = << >>
    /\ tx = [t \in Txns |-> Fresh]
    /\ upstream = [t \in Txns |-> << >>]
    /\ background = [t \in Txns |-> << >>]
    /\ JIRA_WEBHOOK_URL \in WebhookURLs
    /\ scan_text = << >>
    /\ scan_result = NotScanned

NotifyNext ==
    \E t \in Txns :
        \/ ReceiveRequest(t)
        \/ PostUpstream(t)
        \/ UpstreamReply(t)
        \/ StartNotify(t)
        \/ FinishNotify(t)

NotifySpec == NotifyInit /\ [][NotifyNext]_vars

(***************************************************************************)
(* The scanner alone: a policy loaded once, then any text scanned.         *)
(***************************************************************************)
ScanInit ==
    /\ input_guard \in UNION { { GovernanceProxy(impl, p) : p \in Policies(impl) } :
                                impl \in Impls }
    /\ policy_source = "file"
    /\ auditLog = << >>
    /\ tx = [t \in Txns |-> Fresh]
    /\ upstream = [t \in Txns |-> << >>]
    /\ background = [t \in Txns |-> << >>]
    /\ JIRA_WEBHOOK_URL = ""
    /\ scan_text = << >>
    /\ scan_result = NotScanned

\* one call of input_guard.scan_prompt(text)
ScanPrompt ==
    /\ scan_result = NotScanned
    /\ Constructed(input_guard)
    /\ \E text \in Texts :
         /\ scan_text' = text
         /\ scan_result' \in scan_prompt(input_guard, text)
    /\ UNCHANGED <<input_guard, policy_source, auditLog, tx, upstream, background,
                   JIRA_WEBHOOK_URL>>

ScanNext == ScanPrompt

ScanSpec == ScanInit /\ [][ScanNext]_vars

(***************************************************************************)
(* The scanner from its construction: GovernanceProxy(policy_path) with    *)
(* whatever is at the path, then, if there is a scanner, a scan.           *)
(***************************************************************************)
NotConstructed == [ impl |-> "", raised |-> "" ]

LoadInit ==
    /\ input_guard = NotConstructed
    /\ policy_source = ""
    /\ auditLog = << >>
    /\ tx = [t \in Txns |-> Fresh]
    /\ upstream = [t \in Txns |-> << >>]
    /\ background = [t \in Txns |-> << >>]
    /\ JIRA_WEBHOOK_URL = ""
    /\ scan_text = << >>
    /\ scan_result = NotScanned

\* input_guard = GovernanceProxy()
ConstructProxy ==
    /\ input_guard = NotConstructed
    /\ \E impl \in Impls, kind \in SourceKinds :
         \E content \in IF kind = "file" THEN PolicyFiles(impl) ELSE {EmptyDict} :
            /\ policy_source' = kind
            /\ input_guard' = Construct(impl, kind, content)
    /\ UNCHANGED <<auditLog, tx, upstream, background, JIRA_WEBHOOK_URL,
                   scan_text, scan_result>>

LoadNext == ConstructProxy \/ ScanPrompt

LoadSpec == LoadInit /\ [][LoadNext]_vars

(***************************************************************************)
(* What a transaction left behind.                                         *)
(***************************************************************************)
AuditOf(t) == SelectSeq(auditLog, LAMBDA e : e.transaction_id = t)
EventsOf(t) == [i \in 1..Len(AuditOf(t)) |-> <<AuditOf(t)[i].event_type, AuditOf(t)[i].status>>]
EventTypesOf(t) == [i \in 1..Len(AuditOf(t)) |-> AuditOf(t)[i].event_type]
Last(s) == s[Len(s)]
Outcomes == {"INPUT_BLOCKED", "OUTPUT_BLOCKED", "UPSTREAM_ERROR", "DELIVERED"}
Scanned == scan_result.status \notin {"NotScanned", "KeyError"}
HasAction(violations, action) ==
    \E i \in 1..Len(violations) : violations[i].action = action

(***************************************************************************)
(* C1.  A request whose input scan returns BLOCKED is never forwarded: its *)
(* transaction ends INPUT_BLOCKED (403), its only audit entry is           *)
(* (INPUT_SCAN, BLOCKED), and it has posted nothing upstream.              *)
(***************************************************************************)
C1_BlockedInputNeverForwarded ==
    \A t \in Txns :
        tx[t].status = "BLOCKED" =>
            /\ tx[t].pc = "INPUT_BLOCKED"
            /\ tx[t].response.status_code = 403
            /\ EventsOf(t) = << <<"INPUT_SCAN", "BLOCKED">> >>
            /\ upstream[t] = << >>

C1_Witness ==
    \E t \in Txns :
        /\ tx[t].status = "BLOCKED"
        /\ tx[t].user_prompt = <<SSN_TXT>>
        /\ tx[t].pc = "INPUT_BLOCKED"

(***************************************************************************)
(* C2.  A transaction whose output scan returns BLOCKED ends               *)
(* OUTPUT_BLOCKED with (OUTPUT_SCAN, BLOCKED) as its last audit entry, and *)
(* the caller gets the fixed 502 error: no content, nothing of the raw     *)
(* completion.                                                             *)
(***************************************************************************)
C2_BlockedOutputNeverReturned ==
    \A t \in Txns :
        tx[t].out_status = "BLOCKED" =>
            /\ tx[t].pc = "OUTPUT_BLOCKED"
            /\ AuditOf(t) # << >>
            /\ Last(EventsOf(t)) = <<"OUTPUT_SCAN", "BLOCKED">>
            /\ tx[t].response =
                   HTTPException(502, "Response suppressed due to Data Leakage Policy.")
            /\ tx[t].response.content # tx[t].raw_llm_response

C2_Witness ==
    \E t \in Txns :
        /\ tx[t].out_status = "BLOCKED"
        /\ tx[t].raw_llm_response = <<SSN_TXT>>
        /\ tx[t].pc = "OUTPUT_BLOCKED"

(***************************************************************************)
(* C3.  Every transaction ends in one of the four classified outcomes      *)
(* (blocked-input, blocked-output, upstream-error, delivered); no          *)
(* unclassified fault reaches the caller.                                  *)
(***************************************************************************)
C3_FourOutcomes ==
    \A t \in Txns :
        tx[t].response # NoResponse =>
            /\ tx[t].pc \in Outcomes
            /\ tx[t].response.status_code # 500

\* the phases a transaction that ended at pc went through
PhasesTraversed(pc) ==
    CASE pc = "INPUT_BLOCKED" -> <<"INPUT_SCAN">>
      [] pc = "UPSTREAM_ERROR" -> <<"INPUT_SCAN">>
      [] pc = "OUTPUT_BLOCKED" -> <<"INPUT_SCAN", "OUTPUT_SCAN">>
      [] pc = "DELIVERED" -> <<"INPUT_SCAN", "OUTPUT_SCAN", "TRANSACTION_COMPLETE">>

(***************************************************************************)
(* C4.  Audit completeness: a transaction that has reached a terminal      *)
(* state has exactly one audit entry for each phase it traversed, in       *)
(* traversal order, and its last entry's status matches the terminal       *)
(* state.                                                                  *)
(***************************************************************************)
C4_AuditComplete ==
    \A t \in Txns :
        tx[t].pc \in Outcomes =>
            /\ EventTypesOf(t) = PhasesTraversed(tx[t].pc)
            /\ tx[t].pc \in {"INPUT_BLOCKED", "OUTPUT_BLOCKED"} =>
                   Last(AuditOf(t)).status = "BLOCKED"
            /\ tx[t].pc = "DELIVERED" => Last(AuditOf(t)).status = "SUCCESS"

(***************************************************************************)
(* C5.  Block precedence: when a scan returns and one of the violations it *)
(* recorded has action BLOCK, its status is BLOCKED, whatever other        *)
(* violations (REDACT, ALLOW) it recorded before or after.                 *)
(***************************************************************************)
C5_BlockPrecedence ==
    (Scanned /\ HasAction(scan_result.violations, "BLOCK")) =>
        scan_result.status = "BLOCKED"

C5_Witness ==
    /\ Scanned
    /\ scan_result.status = "BLOCKED"
    /\ \E i, j \in 1..Len(scan_result.violations) :
          /\ i < j
          /\ scan_result.violations[i].action = "BLOCK"
          /\ scan_result.violations[j].action = "REDACT"

(***************************************************************************)
(* C6.  The sanitized text of a non-blocked scan contains no occurrence of *)
(* the matched text of any REDACT violation of that scan.                  *)
(***************************************************************************)
C6_NoRedactedMatchLeft ==
    (Scanned /\ scan_result.status # "BLOCKED") =>
        \A i \in 1..Len(scan_result.violations) :
            scan_result.violations[i].action = "REDACT" =>
                ~Contains(scan_result.sanitized, scan_result.violations[i].content)

\* the same policy under the other enforcement mode
OtherMode(mode) == IF mode = "blocking" THEN "monitor" ELSE "blocking"
WithMode(policy, mode) ==
    [policy EXCEPT !.global_settings.enforcement_mode = mode]

(***************************************************************************)
(* C7.  MONITOR mode equivalence: for a text with a BLOCK-classified match *)
(* the scan records the same violations under either enforcement mode, and *)
(* its status is BLOCKED under blocking but REDACTED or SAFE under         *)
(* monitor.                                                                *)
(***************************************************************************)
C7_MonitorEquivalence ==
    (Scanned /\ HasAction(scan_result.violations, "BLOCK")) =>
        /\ \E r \in scan_prompt(
                    GovernanceProxy(input_guard.impl,
                                    WithMode(input_guard.policy,
                                             OtherMode(input_guard.enforcement_mode))),
                    scan_text) :
               Range(r.violations) = Range(scan_result.violations)
        /\ input_guard.enforcement_mode = "blocking" => scan_result.status = "BLOCKED"
        /\ input_guard.enforcement_mode = "monitor" =>
               scan_result.status \in {"REDACTED", "SAFE"}

\* the input scan of t returned, not blocked, a text other than the prompt
Redacted(t) ==
    /\ tx[t].status \notin {"", "BLOCKED"}
    /\ tx[t].sanitized_prompt # tx[t].user_prompt

(***************************************************************************)
(* C8.  A transaction whose input scan did not block and whose sanitized   *)
(* prompt differs from the original has (INPUT_SCAN, REDACTED) as its      *)
(* first audit entry from before anything is posted upstream, and every    *)
(* payload it posts carries the sanitized prompt, not the original, as the *)
(* content of its last message.                                            *)
(***************************************************************************)
C8_RedactedBeforeForward ==
    \A t \in Txns :
        Redacted(t) =>
            /\ AuditOf(t) # << >>
            /\ EventsOf(t)[1] = <<"INPUT_SCAN", "REDACTED">>
            /\ \A i \in 1..Len(upstream[t]) :
                  /\ Last(upstream[t][i].messages) = tx[t].sanitized_prompt
                  /\ Last(upstream[t][i].messages) # tx[t].user_prompt

C8_Witness ==
    \E t \in Txns :
        /\ Redacted(t)
        /\ tx[t].user_prompt = <<EMAIL_TXT>>
        /\ Len(upstream[t]) = 1
        /\ Last(upstream[t][1].messages) = <<"[EMAIL_REDACTED]">>

(***************************************************************************)
(* C9.  When the upstream call fails (transport error, timeout, non-2xx)   *)
(* the transaction ends UPSTREAM_ERROR (502) having posted upstream        *)
(* exactly once, and its audit entries hold no OUTPUT_SCAN and no          *)
(* TRANSACTION_COMPLETE entry.                                             *)
(***************************************************************************)
C9_UpstreamFailure ==
    \A t \in Txns :
        tx[t].reply \in HTTPErrors =>
            /\ tx[t].pc = "UPSTREAM_ERROR"
            /\ tx[t].response.status_code = 502
            /\ Len(upstream[t]) = 1
            /\ \A i \in 1..Len(AuditOf(t)) :
                  AuditOf(t)[i].event_type \notin {"OUTPUT_SCAN", "TRANSACTION_COMPLETE"}

C9_Witness ==
    \E t, u \in Txns :
        /\ tx[t].reply = "ReadTimeout"
        /\ tx[t].pc = "UPSTREAM_ERROR"
        /\ tx[u].reply = "HTTPStatusError"
        /\ tx[u].pc = "UPSTREAM_ERROR"
        /\ AuditOf(u) # << >>

(***************************************************************************)
(* C10.  A transaction has scheduled a notify_jira task if and only if it  *)
(* ended blocked (input or output), and then exactly one; a delivered, a   *)
(* failed or an unfinished transaction has scheduled none.                 *)
(***************************************************************************)
C10_NotifyIffBlocked ==
    \A t \in Txns :
        /\ Len(background[t]) =
               IF tx[t].pc \in {"INPUT_BLOCKED", "OUTPUT_BLOCKED"} THEN 1 ELSE 0
        /\ \A i \in 1..Len(background[t]) :
               /\ background[t][i].task = "notify_jira"
               /\ background[t][i].transaction_id = t

C10_Witness ==
    \E t, u \in Txns :
        /\ tx[t].pc = "OUTPUT_BLOCKED"
        /\ Len(background[t]) = 1
        /\ tx[u].pc \in {"DELIVERED", "UPSTREAM_ERROR"}
        /\ background[u] = << >>
\* what the caller of a blocked transaction gets
BlockedResponse(pc) ==
    IF pc = "INPUT_BLOCKED"
    THEN HTTPException(403, "Prompt blocked by AI Acceptable Use Policy.")
    ELSE HTTPException(502, "Response suppressed due to Data Leakage Policy.")

(***************************************************************************)
(* C11.  The notification runs detached: in whatever state a transaction's *)
(* notify_jira task is (not started, returned for want of a sink, awaiting *)
(* the sink, posted, failed), the transaction has its blocked response and *)
(* its (.., BLOCKED) audit entry, and no step of the task changes a        *)
(* response, the audit log or what was sent upstream.                      *)
(***************************************************************************)
C11_NotificationDetached ==
    /\ [](\A t \in Txns : \A i \in 1..Len(background[t]) :
            /\ tx[t].pc \in {"INPUT_BLOCKED", "OUTPUT_BLOCKED"}
            /\ tx[t].response = BlockedResponse(tx[t].pc)
            /\ AuditOf(t) # << >>
            /\ Last(AuditOf(t)).status = "BLOCKED")
    /\ [][(\E t \in Txns : background'[t] # background[t]
                             /\ Len(background'[t]) = Len(background[t]))
            => (tx' = tx /\ auditLog' = auditLog /\ upstream' = upstream)]_vars

C11_Witness ==
    \E t, u \in Txns :
        /\ Len(background[t]) = 1
        /\ background[t][1].state = "printed"
        /\ tx[t].response = BlockedResponse("INPUT_BLOCKED")
        /\ Len(background[u]) = 1
        /\ background[u][1].state = "posting"
        /\ tx[u].response = BlockedResponse("OUTPUT_BLOCKED")

\* the classes of HTTP status codes
ClientRejection(code) == code \in 400..499
UpstreamFailure(code) == code \in 500..599

(***************************************************************************)
(* C12.  Each outcome carries its own classification: a blocked input and  *)
(* a blocked output are answered with a client-rejection status, an        *)
(* upstream failure with an upstream-failure status, and no blocked        *)
(* transaction is answered with the status of a failed upstream call.      *)
(***************************************************************************)
C12_OutcomeClassification ==
    /\ \A t \in Txns :
          /\ tx[t].pc \in {"INPUT_BLOCKED", "OUTPUT_BLOCKED"} =>
                 ClientRejection(tx[t].response.status_code)
          /\ tx[t].pc = "UPSTREAM_ERROR" =>
                 UpstreamFailure(tx[t].response.status_code)
    /\ \A t, u \in Txns :
          (tx[t].pc \in {"INPUT_BLOCKED", "OUTPUT_BLOCKED"}
             /\ tx[u].pc = "UPSTREAM_ERROR") =>
              tx[t].response.status_code # tx[u].response.status_code

(***************************************************************************)
(* C13.  When a scan returns BLOCKED, the sanitized text it returns is the *)
(* text that was scanned, verbatim.                                        *)
(***************************************************************************)
C13_BlockedReturnsOriginal ==
    (Scanned /\ scan_result.status = "BLOCKED") =>
        scan_result.sanitized = scan_text

(***************************************************************************)
(* C14.  When a scan returns and did not block, its status is REDACTED if  *)
(* the returned text differs from the scanned text (a replacement was      *)
(* made) and SAFE otherwise; the empty text gives SAFE and no violation.   *)
(***************************************************************************)
C14_RedactedOrSafe ==
    (Scanned /\ scan_result.status # "BLOCKED") =>
        /\ scan_result.status =
               IF scan_result.sanitized # scan_text THEN "REDACTED" ELSE "SAFE"
        /\ scan_text = << >> =>
               (scan_result.status = "SAFE" /\ scan_result.violations = << >>)

(***************************************************************************)
(* C15.  Every transaction that has reached a terminal state (blocked,     *)
(* failed or delivered) has at least one audit entry carrying its          *)
(* transaction id.                                                         *)
(***************************************************************************)
C15_TerminalHasAuditEntry ==
    \A t \in Txns : tx[t].pc \in Outcomes => AuditOf(t) # << >>

\* the keys of a line of the log file (the timestamp and user_id are left out
\* of the model's entries)
EntryKeys == {"event_type", "transaction_id", "status", "policy_version", "details"}

\* the entry log_event writes before a response with this pc goes out
FinalEntry(pc) ==
    CASE pc = "INPUT_BLOCKED" -> <<"INPUT_SCAN", "BLOCKED">>
      [] pc = "OUTPUT_BLOCKED" -> <<"OUTPUT_SCAN", "BLOCKED">>
      [] pc = "DELIVERED" -> <<"TRANSACTION_COMPLETE", "SUCCESS">>

(***************************************************************************)
(* C16.  The audit log is append-only under concurrent transactions: every *)
(* step leaves the log as it was or adds exactly one whole entry at its    *)
(* end; and an entry is in the log before the response of its phase goes   *)
(* out: a blocked or delivered response finds its entry in the log, and no *)
(* entry of a transaction is added after its response.                     *)
(***************************************************************************)
C16_AppendOnly ==
    /\ [][\/ auditLog' = auditLog
          \/ /\ Len(auditLog') = Len(auditLog) + 1
             /\ SubSeq(auditLog', 1, Len(auditLog)) = auditLog
             /\ DOMAIN Last(auditLog') = EntryKeys
             /\ Last(auditLog').transaction_id \in Txns]_vars
    /\ [](\A t \in Txns :
            tx[t].pc \in {"INPUT_BLOCKED", "OUTPUT_BLOCKED", "DELIVERED"} =>
                /\ AuditOf(t) # << >>
                /\ Last(EventsOf(t)) = FinalEntry(tx[t].pc))
    /\ [][\A t \in Txns :
            tx[t].response # NoResponse =>
                SelectSeq(auditLog', LAMBDA e : e.transaction_id = t) = AuditOf(t)]_vars

C16_Witness ==
    /\ Len(auditLog) >= 3
    /\ auditLog[1].transaction_id = auditLog[3].transaction_id
    /\ auditLog[2].transaction_id # auditLog[1].transaction_id

\* the handler of t has ended: its caller has a response
Finished(t) == tx[t].response # NoResponse

LoadFailed == policy_source \in {"missing", "unreadable", "unparsable", "empty"}

\* the scan that followed the construction returned, for a text with an SSN
ScannedSSN == Scanned /\ FindAll("SSN", scan_text) # << >>

(***************************************************************************)
(* C18.  Policy loading fails soft: whatever made the policy source        *)
(* unreadable (no file, a file that cannot be opened, content that is not  *)
(* YAML, empty content), the constructor returns a scanner whose rules     *)
(* block the SSN and the cloud-access-key detectors with sensitivity       *)
(* CRITICAL and redact every other detector, and a scan of a text with an  *)
(* SSN is BLOCKED.                                                         *)
(***************************************************************************)
C18_LoadFailsSoft ==
    LoadFailed =>
        /\ Constructed(input_guard)
        /\ \A k \in 1..Len(PATTERNS(input_guard.impl)) :
              LET d == PATTERNS(input_guard.impl)[k]
              IN  IF d \in {"SSN", "AWS_ACCESS_KEY"}
                  THEN RuleFor(input_guard, d) = Rule("BLOCK", "CRITICAL")
                  ELSE RuleFor(input_guard, d).action = "REDACT"
        /\ ScannedSSN => scan_result.status = "BLOCKED"

\* the scan returned, not blocked, a text in which a replacement was made
Replaced ==
    /\ Scanned
    /\ scan_result.status # "BLOCKED"
    /\ scan_result.sanitized # scan_text

(***************************************************************************)
(* C19.  Idempotence of redaction: when a scan returned a non-blocked      *)
(* result with a replacement made, every scan of the returned text under   *)
(* the same policy returns, records no violation, has status SAFE and      *)
(* returns that text unchanged.                                            *)
(***************************************************************************)
C19_RedactionIdempotent ==
    Replaced =>
        \A again \in scan_prompt(input_guard, scan_result.sanitized) :
            /\ ~again.raised
            /\ again.violations = << >>
            /\ again.status = "SAFE"
            /\ again.sanitized = scan_result.sanitized

\* the detector's rule lacks its action or its sensitivity
Malformed(self, d) ==
    RuleFor(self, d).action = Missing \/ RuleFor(self, d).sensitivity = Missing

\* scan_prompt was called and has ended, by a return or by an exception
ScanEnded == scan_result # NotScanned

(***************************************************************************)
(* C20.  A detector fault never aborts a scan: when the rule of a detector *)
(* is malformed (lacks its action or its sensitivity), a call of           *)
(* scan_prompt still returns a result, no exception reaches its caller,    *)
(* and every detector with a well-formed rule that matches the text has    *)
(* run and recorded its violation.                                         *)
(***************************************************************************)
C20_FaultNeverAborts ==
    ( /\ ScanEnded
      /\ \E k \in 1..Len(PATTERNS(input_guard.impl)) :
            Malformed(input_guard, PATTERNS(input_guard.impl)[k]) ) =>
        /\ ~scan_result.raised
        /\ \A k \in 1..Len(PATTERNS(input_guard.impl)) :
              LET d == PATTERNS(input_guard.impl)[k]
              IN  (~Malformed(input_guard, d) /\ FindAll(d, scan_text) # << >>) =>
                      \E i \in 1..Len(scan_result.violations) :
                          scan_result.violations[i].type = d

\* the policy's data_rules (the mapping the scan looks the rule up in)
DataRules(self) == Get(self.policy, "data_rules", EmptyDict)

(***************************************************************************)
(* C21.  Rule resolution default: every violation a scan records carries   *)
(* the rule of its detector: the entry of data_rules when the detector has *)
(* one, and (sensitivity UNKNOWN, action REDACT) when it has none; in both *)
(* implementations and under the fallback policy.                          *)
(***************************************************************************)
C21_RuleResolutionDefault ==
    Scanned =>
        \A i \in 1..Len(scan_result.violations) :
            LET v == scan_result.violations[i]
                key == Lower(v.type)
            IN  IF key \in DOMAIN DataRules(input_guard)
                THEN /\ v.sensitivity = DataRules(input_guard)[key].sensitivity
                     /\ v.action = DataRules(input_guard)[key].action
                ELSE /\ v.sensitivity = "UNKNOWN"
                     /\ v.action = "REDACT"

\* what belongs to transaction t: the handler's locals and response, the
\* payloads it posted upstream, the audit entries that carry its id
View(t) == [tx |-> tx[t], upstream |-> upstream[t], audit |-> AuditOf(t)]

\* the view of a handler that has not started
FreshView == [tx |-> Fresh, upstream |-> << >>, audit |-> << >>]

\* the results of input_guard.scan_prompt and of the output scan, for each
\* policy of the server and each text the handler is driven with
InputScans ==
    [ policy \in ServerPolicies |->
        [ text \in { m[Len(m)] : m \in MessageLists \ {<< >>} } |->
            scan_prompt(GovernanceProxy("governance_guardrail", policy), text) ] ]
OutputScans ==
    [ policy \in ServerPolicies |->
        [ text \in Completions |-> scan_completion(policy, text) ] ]

\* proxy_chat_completion run alone, as a function of its own view: the
\* views one step of the handler of transaction t can lead to from view v
AloneUnhandled(v, exc) ==
    [v EXCEPT !.tx.pc = "UNHANDLED", !.tx.response = Unhandled(exc)]

\* lines 55-85, alone
AloneReceive(t, v, messages) ==
    IF Len(messages) = 0 THEN {AloneUnhandled(v, "IndexError")}
    ELSE LET user_prompt == messages[Len(messages)]
         IN  { IF r.raised THEN AloneUnhandled(v, "KeyError")
               ELSE IF r.status = "BLOCKED"
               THEN [ tx |-> [v.tx EXCEPT
                                !.pc = "INPUT_BLOCKED",
                                !.messages = messages,
                                !.user_prompt = user_prompt,
                                !.sanitized_prompt = r.sanitized,
                                !.status = r.status,
                                !.response = HTTPException(403,
                                    "Prompt blocked by AI Acceptable Use Policy.")],
                      upstream |-> v.upstream,
                      audit |-> log_event(v.audit, "INPUT_SCAN", t, "BLOCKED",
                                          "Critical Data Detected") ]
               ELSE [ tx |-> [v.tx EXCEPT
                                !.pc = "CLIENT_OPEN",
                                !.messages = IF r.sanitized # user_prompt
                                             THEN SetLast(messages, r.sanitized)
                                             ELSE messages,
                                !.user_prompt = user_prompt,
                                !.sanitized_prompt = r.sanitized,
                                !.status = r.status],
                      upstream |-> v.upstream,
                      audit |-> IF r.sanitized # user_prompt
                                THEN log_event(v.audit, "INPUT_SCAN", t, "REDACTED",
                                               "PII Masked")
                                ELSE v.audit ] :
               r \in InputScans[input_guard.policy][user_prompt] }

\* lines 87-93, alone
AlonePost(v) ==
    [ tx |-> [v.tx EXCEPT !.pc = "UPSTREAM_CALLING"],
      upstream |-> Append(v.upstream, [messages |-> v.tx.messages]),
      audit |-> v.audit ]

\* lines 94-116, alone
AloneReply(t, v, reply) ==
    IF reply.kind \in HTTPErrors
    THEN { [v EXCEPT !.tx.pc = "UPSTREAM_ERROR",
                     !.tx.reply = reply.kind,
                     !.tx.response = HTTPException(502, "Upstream Provider Error")] }
    ELSE IF reply.kind = "NotJSON" THEN {AloneUnhandled(v, "JSONDecodeError")}
    ELSE IF reply.kind = "NoChoices" THEN {AloneUnhandled(v, "KeyError")}
    ELSE { IF o.status = "BLOCKED"
           THEN [ tx |-> [v.tx EXCEPT
                            !.pc = "OUTPUT_BLOCKED",
                            !.reply = reply.kind,
                            !.raw_llm_response = reply.content,
                            !.out_status = o.status,
                            !.response = HTTPException(502,
                                "Response suppressed due to Data Leakage Policy.")],
                  upstream |-> v.upstream,
                  audit |-> log_event(v.audit, "OUTPUT_SCAN", t, "BLOCKED",
                                      "Data Leakage Detected") ]
           ELSE [ tx |-> [v.tx EXCEPT
                            !.pc = "DELIVERED",
                            !.reply = reply.kind,
                            !.raw_llm_response = reply.content,
                            !.out_status = o.status,
                            !.response = Returned(o.text)],
                  upstream |-> v.upstream,
                  audit |-> log_event(v.audit, "TRANSACTION_COMPLETE", t, "SUCCESS",
                                      "Request fulfilled") ] :
           o \in OutputScans[input_guard.policy][reply.content] }

AloneSteps(t, v) ==
    CASE v.tx.pc = "INGRESS" ->
            UNION { AloneReceive(t, v, messages) : messages \in MessageLists }
      [] v.tx.pc = "CLIENT_OPEN" -> {AlonePost(v)}
      [] v.tx.pc = "UPSTREAM_CALLING" ->
            UNION { AloneReply(t, v, reply) : reply \in Replies }
      [] OTHER -> {}

(***************************************************************************)
(* C22.  Isolation of concurrent transactions: in every interleaving, what *)
(* belongs to a transaction (its handler's state and response, the         *)
(* payloads it sent upstream, the audit entries with its id) starts as it  *)
(* does for a handler alone, moves only by steps the handler could take    *)
(* running alone, and is changed by no step of another transaction; a      *)
(* handler that could take a step alone can take one whatever the other    *)
(* transactions have done; no step changes the shared scanner and its      *)
(* policy; and every audit entry and notification task carries the id of   *)
(* the one transaction that wrote it.                                      *)
(***************************************************************************)
C22_Isolation ==
    /\ \A t \in Txns : View(t) = FreshView
    /\ [][ /\ \A t \in Txns :
                \/ View(t)' = View(t)
                \/ View(t)' \in AloneSteps(t, View(t))
           /\ input_guard' = input_guard ]_vars
    /\ [](\A t \in Txns :
            /\ AloneSteps(t, View(t)) # {} =>
                  ENABLED (ReceiveRequest(t) \/ PostUpstream(t) \/ UpstreamReply(t))
            /\ Len(AuditOf(t)) <= 2
            /\ \A i \in 1..Len(background[t]) :
                  background[t][i].transaction_id = t)
    /\ [](\A i \in 1..Len(auditLog) : auditLog[i].transaction_id \in Txns)

\* two transactions have ended with their audit entries interleaved in the
\* log: the redaction entry of one, the entry of the other, then the
\* completion entry of the first
C22_Witness ==
    /\ \A t \in Txns : Finished(t)
    /\ \E i, j, k \in 1..Len(auditLog) :
          /\ i < j /\ j < k
          /\ auditLog[i].transaction_id = auditLog[k].transaction_id
          /\ auditLog[j].transaction_id # auditLog[i].transaction_id
          /\ auditLog[i].status = "REDACTED"
          /\ auditLog[k].event_type = "TRANSACTION_COMPLETE"

(***************************************************************************)
(* C23.  Scan determinism: whatever order the deduplicated matches of a    *)
(* detector are iterated in, a scan of the same text under the same policy *)
(* ends the same way: every result scan_prompt can produce for the scanned *)
(* text has the sanitized text and the status of the one it produced.      *)
(***************************************************************************)
C23_ScanDeterministic ==
    ScanEnded =>
        \A other \in scan_prompt(input_guard, scan_text) :
            /\ other.raised = scan_result.raised
            /\ other.sanitized = scan_result.sanitized
            /\ other.status = scan_result.status
=============================================================================
